---- MODULE Spec2Model ----
(***************************************************************************)
(* A model of libtatlin: the camera state machine and the frames of        *)
(* views.py (ViewMode, View2D, View3D), the toolpath geometry and the mesh *)
(* of actors.py (GcodeModel, StlModel, BoundingBox) and the functions of   *)
(* vector.py (translate, rotate).                                          *)
(*                                                                         *)
(* Python floats are modelled as fixed-point numbers: the integer n stands *)
(* for the float n / Scale, and a product or a quotient is rounded to the  *)
(* nearest representable value (as IEEE arithmetic rounds, at a coarser    *)
(* resolution).                                                            *)
(***************************************************************************)
EXTENDS Integers, Sequences, FiniteSets, TLC

VARIABLES
    \* ---- a view object (views.py) ----
    kind,        \* the class of the view: "View2D" or "View3D"
    attrs,       \* the tracked attributes of the view: name -> value
    stack,       \* self._stack: a flat list of saved attribute values
    raised,      \* the last call ended by raising an exception
    lastOp,      \* the name of the last call made on the object
    lastArgs,    \* the arguments of the last call made on the object
    fuel,        \* calls the caller may still make
    \* history of the calls, kept beside the object
    snaps,       \* the snapshots taken by push_state and not yet popped
    clean,       \* no pop_state since the last push_state
    gest,        \* gestures (zoom, pan, rotate) made since the last stack call
    undone,      \* gestures that the last pop_state / reset_state rolled back
    popped,      \* the snapshots restored by the latest run of pop_state calls
    resets,      \* reset_state calls since the last push_state / pop_state
    run          \* the opening run of zoom calls: still open, and its signed length

VARIABLES
    \* ---- a GcodeModel object (actors.py) ----
    gpc,                \* where the constructor is: "layers" (between two layers),
                        \* "movements" (inside a layer), "ready", "failed"
    model_data,         \* the layers of movements the constructor has read so far
    vertex_list,        \* create_vertex_arrays: local vertex_list
    color_list,         \* create_vertex_arrays: local color_list
    arrow_list,         \* create_vertex_arrays: local arrow_list
    layer_stops,        \* self.layer_stops
    vertices,           \* self.vertices
    colors,             \* self.colors
    arrows,             \* self.arrows
    max_layers,         \* self.max_layers
    num_layers_to_draw, \* self.num_layers_to_draw
    arrows_enabled,     \* self.arrows_enabled
    initialized,        \* self.initialized
    vbo,                \* the buffer attributes init() has created: name -> data
    drawn,              \* the glDrawArrays calls of the last call of display
    gerr,               \* the exception the last call raised, or "none"
    glastOp             \* the name of the last call made on the object

VARIABLES
    \* ---- one call of GcodeModel.movement_color ----
    cmove,              \* the movement handed to movement_color
    ccolor              \* the color it returned (<<>> before the call)

VARIABLES
    \* ---- a StlModel object (actors.py) ----
    mesh_vertices,      \* self.vertices
    mesh_normals,       \* self.normals
    scaling_factor,     \* self.scaling_factor
    cached_box,         \* self._bounding_box: None or a BoundingBox
    mesh_returned,      \* the value the last call returned
    mesh_err,           \* the exception the last call raised, or "none"
    mesh_calls,         \* calls the caller may still make
    \* history of the calls, kept beside the object
    mesh_log            \* one record for each call made, with the object as
                        \* it was before the call

VARIABLES
    \* ---- calls of vector.translate and vector.rotate (vector.py) ----
    vec_buf,            \* the buffer at hand: the one given at first, then
                        \* the one the last call returned
    vec_arg,            \* the buffer handed to the last call, as it is after
                        \* the call
    vec_calls,          \* calls the caller may still make
    vec_log             \* one record for each call made, with its arguments

VARIABLES
    \* ---- a frame drawn through a view (views.py) and the OpenGL state ----
    view_wh,            \* View2D: <<self.w, self.h>>, None when both are None
    gl,                 \* OpenGL: the matrix mode and the two matrix stacks
    frame,              \* "none" before the first frame, "open" between begin
                        \* and end, "closed" after end, "aborted" after a
                        \* drawing step that raised
    gl_before,          \* the OpenGL state right before the last begin
    frame_err,          \* the exception the last call raised, or "none"
    frame_op,           \* the name of the last call of the caller
    frame_calls         \* calls the caller may still make

viewVars == <<kind, attrs, stack, raised, lastOp, lastArgs, fuel,
              snaps, clean, gest, undone, popped, resets, run>>

\* the variables of the view but the attributes of the object
viewRest == <<kind, stack, raised, lastOp, lastArgs, fuel,
              snaps, clean, gest, undone, popped, resets, run>>

gcodeVars == <<gpc, model_data, vertex_list, color_list, arrow_list, layer_stops,
               vertices, colors, arrows, max_layers, num_layers_to_draw,
               arrows_enabled, initialized, vbo, drawn, gerr, glastOp>>

colorVars == <<cmove, ccolor>>

meshVars == <<mesh_vertices, mesh_normals, scaling_factor, cached_box,
              mesh_returned, mesh_err, mesh_calls, mesh_log>>

vectorVars == <<vec_buf, vec_arg, vec_calls, vec_log>>

frameVars == <<view_wh, gl, frame, gl_before, frame_err,
               frame_op, frame_calls>>

vars == <<viewVars, gcodeVars, colorVars, meshVars, vectorVars, frameVars>>

\* what the calls on one object leave alone: the variables of the others
outsideView == <<gcodeVars, colorVars, meshVars, vectorVars, frameVars>>
outsideFrame == <<viewRest, gcodeVars, colorVars, meshVars, vectorVars>>
outsideGcode == <<viewVars, colorVars, meshVars, vectorVars, frameVars>>
outsideColor == <<viewVars, gcodeVars, meshVars, vectorVars, frameVars>>
outsideMesh == <<viewVars, gcodeVars, colorVars, vectorVars, frameVars>>
outsideVector == <<viewVars, gcodeVars, colorVars, meshVars, frameVars>>

(***************************************************************************)
(* Bounds of the model.                                                    *)
(***************************************************************************)
\* calls made on a freshly constructed view
MaxSteps == 5
\* zoom calls in one direction made right after construction (SpecZoom)
MaxBurst == 38
\* calls made after such a run of zoom calls (SpecZoom)
MaxZoomSteps == 2

\* layers handed to the GcodeModel constructor
MaxLayers == 3
\* movements in all the layers together
MaxMoves == 2

\* vertices of the mesh handed to the StlModel constructor
MaxVertices == 2
\* calls made on a freshly constructed StlModel
MaxMeshCalls == 3
\* calls of the functions of vector.py made one after the other
MaxVectorCalls == 4
\* calls made on a view and on the models drawn through it, frames included
MaxFrameCalls == 5

\* mouse deltas handed to zoom, pan and rotate: (delta_x, delta_y)
Deltas == {<<1, 0>>, <<0, 1>>, <<-1, -1>>, <<2, 3>>}

(***************************************************************************)
(* Fixed-point floats.                                                     *)
(***************************************************************************)
Scale == 1000

\* the float of an integer literal
F(n) == n * Scale

\* floor(a / b + 1/2) for b > 0
RoundDiv(a, b) == (2 * a + b) \div (2 * b)

\* the float product a * (num / den), the factor num / den a decimal literal
MulLit(a, num, den) == RoundDiv(a * num, den)

\* the float quotient a / b of two floats
FDiv(a, b) == RoundDiv(a * Scale, b)

Min(a, b) == IF a <= b THEN a ELSE b
Max(a, b) == IF a >= b THEN a ELSE b

(***************************************************************************)
(* ViewMode                                                                *)
(***************************************************************************)
ZOOM_MIN == Scale \div 10
ZOOM_MAX == F(1000)
PAN_FACTOR == 4

\* Faulty variant: View3D saving its projection flag with the camera parameters
save_vars_with_ortho(k) ==
    IF k = "View2D"
    THEN <<"x", "y", "z", "zoom_factor", "azimuth">>
    ELSE <<"x", "y", "z", "zoom_factor", "azimuth", "elevation", "ortho">>

\* self._save_vars after the constructor of each class
save_vars(k) ==
    IF k = "View2D"
    THEN <<"x", "y", "z", "zoom_factor", "azimuth">>
    ELSE <<"x", "y", "z", "zoom_factor", "azimuth", "elevation">>

\* the attribute values set by the constructors
View2D_init ==
    [x |-> F(0), y |-> F(0), z |-> F(0), zoom_factor |-> F(5), azimuth |-> F(0),
     supports_ortho |-> FALSE]

View3D_init ==
    [x |-> F(0), y |-> F(180), z |-> F(-20), zoom_factor |-> F(1),
     azimuth |-> F(0), elevation |-> F(-20),
     supports_ortho |-> TRUE, ortho |-> FALSE]

ctor_attrs(k) == IF k = "View2D" THEN View2D_init ELSE View3D_init

\* push_state: append the value of every saved variable, in order
push_values(k, a) == [i \in 1..Len(save_vars(k)) |-> a[save_vars(k)[i]]]

push_state_on(k, a, st) == st \o push_values(k, a)

\* Faulty variant: pop_state restoring the variables in the order they were saved
RECURSIVE pop_loop_forward(_, _, _, _)
pop_loop_forward(k, a, st, i) ==
    IF i = 0 THEN [attrs |-> a, stack |-> st, raised |-> FALSE]
    ELSE IF st = <<>> THEN [attrs |-> a, stack |-> st, raised |-> TRUE]
    ELSE pop_loop_forward(k,
                  [a EXCEPT ![save_vars(k)[Len(save_vars(k)) + 1 - i]] = st[Len(st)]],
                  SubSeq(st, 1, Len(st) - 1),
                  i - 1)

\* Faulty variant: pop_state that ends quietly when the stack runs out
RECURSIVE pop_loop_silent(_, _, _, _)
pop_loop_silent(k, a, st, i) ==
    IF i = 0 THEN [attrs |-> a, stack |-> st, raised |-> FALSE]
    ELSE IF st = <<>> THEN [attrs |-> a, stack |-> st, raised |-> FALSE]
    ELSE pop_loop_silent(k,
                  [a EXCEPT ![save_vars(k)[i]] = st[Len(st)]],
                  SubSeq(st, 1, Len(st) - 1),
                  i - 1)

\* pop_state: for var in reversed(save_vars): setattr(var, stack.pop()).
\* i is the index of the next variable to restore; list.pop() on an empty
\* list raises IndexError and ends the loop with what was done so far.
RECURSIVE pop_loop(_, _, _, _)
pop_loop(k, a, st, i) ==
    IF i = 0 THEN [attrs |-> a, stack |-> st, raised |-> FALSE]
    ELSE IF st = <<>> THEN [attrs |-> a, stack |-> st, raised |-> TRUE]
    ELSE pop_loop(k,
                  [a EXCEPT ![save_vars(k)[i]] = st[Len(st)]],
                  SubSeq(st, 1, Len(st) - 1),
                  i - 1)

pop_state_on(k, a, st) == pop_loop(k, a, st, Len(save_vars(k)))

\* Faulty variant: reset_state that saves before it restores
reset_push_first(k, a, st) ==
    pop_state_on(k, a, push_state_on(k, a, st))

\* Faulty variant: reset_state that forgets to save the restored state again
reset_without_push(k, a, st) == pop_state_on(k, a, st)

\* reset_state: pop_state(); push_state() -- an exception of pop_state
\* leaves before push_state runs
reset_state_on(k, a, st) ==
    LET p == pop_state_on(k, a, st)
    IN  IF p.raised THEN p
        ELSE [attrs |-> p.attrs,
              stack |-> push_state_on(k, p.attrs, p.stack),
              raised |-> FALSE]

\* Faulty variant: zoom without the upper clamp
zoom_value_unclamped(z, delta_y) ==
    IF delta_y > 0 THEN MulLit(z, 12, 10)
    ELSE IF delta_y < 0 THEN Max(MulLit(z, 83, 100), ZOOM_MIN)
    ELSE z

\* Faulty variant: zoom whose step grows with the size of delta_y
zoom_value_by_magnitude(z, delta_y) ==
    IF delta_y > 0 THEN Min(MulLit(z, 12 * delta_y, 10), ZOOM_MAX)
    ELSE IF delta_y < 0 THEN Max(MulLit(z, 83, -100 * delta_y), ZOOM_MIN)
    ELSE z

\* zoom(delta_x, delta_y)
zoom_value(z, delta_y) ==
    IF delta_y > 0 THEN Min(MulLit(z, 12, 10), ZOOM_MAX)
    ELSE IF delta_y < 0 THEN Max(MulLit(z, 83, 100), ZOOM_MIN)
    ELSE z

\* Faulty variant: View3D.rotate adding delta_y to the elevation
rotate_attrs_elevation_up(k, a, delta_x, delta_y) ==
    IF k = "View2D"
    THEN [a EXCEPT !.azimuth = @ + F(delta_x)]
    ELSE [a EXCEPT !.azimuth = @ + F(delta_x), !.elevation = @ + F(delta_y)]

\* View2D.rotate / View3D.rotate
rotate_attrs(k, a, delta_x, delta_y) ==
    IF k = "View2D"
    THEN [a EXCEPT !.azimuth = @ + F(delta_x)]
    ELSE [a EXCEPT !.azimuth = @ + F(delta_x), !.elevation = @ - F(delta_y)]

\* Faulty variant: View3D.pan by the fixed factor of View2D.pan
pan_attrs_fixed_factor(k, a, delta_x, delta_y) ==
    IF k = "View2D"
    THEN [a EXCEPT !.x = @ + F(delta_x) * PAN_FACTOR,
                   !.y = @ - F(delta_y) * PAN_FACTOR]
    ELSE [a EXCEPT !.x = @ + F(delta_x) * PAN_FACTOR,
                   !.z = @ - F(delta_y) * PAN_FACTOR]

\* View2D.pan / View3D.pan
pan_attrs(k, a, delta_x, delta_y) ==
    IF k = "View2D"
    THEN [a EXCEPT !.x = @ + F(delta_x) * PAN_FACTOR,
                   !.y = @ - F(delta_y) * PAN_FACTOR]
    ELSE [a EXCEPT !.x = @ + FDiv(F(delta_x), a.zoom_factor),
                   !.z = @ - FDiv(F(delta_y), a.zoom_factor)]

(***************************************************************************)
(* vector.py                                                               *)
(***************************************************************************)
\* math.cos / math.sin of an angle in degrees, for the multiples of 90
\* degrees (the angles whose sine and cosine the fixed-point floats hold
\* exactly)
cos_deg(angle) ==
    CASE angle % 360 = 0 -> 1
      [] angle % 360 = 90 -> 0
      [] angle % 360 = 180 -> -1
      [] angle % 360 = 270 -> 0

sin_deg(angle) ==
    CASE angle % 360 = 0 -> 0
      [] angle % 360 = 90 -> 1
      [] angle % 360 = 180 -> 0
      [] angle % 360 = 270 -> -1

\* Faulty variant: the matrix without the cosine on its diagonal
rotation_matrix_no_cos(angle, x, y, z) ==
    LET c == cos_deg(angle)
        s == sin_deg(angle)
        C == 1 - c
    IN  << <<x * x * C,         x * y * C - z * s, x * z * C + y * s>>,
           <<y * x * C + z * s, y * y * C,         y * z * C - x * s>>,
           <<x * z * C - y * s, y * z * C + x * s, z * z * C>> >>

\* the matrix built by rotate, for an axis with integer coordinates
rotation_matrix(angle, x, y, z) ==
    LET c == cos_deg(angle)
        s == sin_deg(angle)
        C == 1 - c
    IN  << <<x * x * C + c,     x * y * C - z * s, x * z * C + y * s>>,
           <<y * x * C + z * s, y * y * C + c,     y * z * C - x * s>>,
           <<x * z * C - y * s, y * z * C + x * s, z * z * C + c>> >>

\* one row of vertices.dot(matrix): the row vector v times the matrix
row_dot(v, m) ==
    [j \in 1..3 |-> v[1] * m[1][j] + v[2] * m[2][j] + v[3] * m[3][j]]

\* rotate(vertices, angle, x, y, z)
vector_rotate(vs, angle, x, y, z) ==
    [i \in 1..Len(vs) |-> row_dot(vs[i], rotation_matrix(angle, x, y, z))]

(***************************************************************************)
(* GcodeModel                                                              *)
(***************************************************************************)
color_map ==
    [red    |-> <<F(1), 0, 0, (6 * Scale) \div 10>>,
     yellow |-> <<F(1), (875 * Scale) \div 1000, 0, (6 * Scale) \div 10>>,
     orange |-> <<F(1), (373 * Scale) \div 1000, 0, (6 * Scale) \div 10>>,
     green  |-> <<0, F(1), 0, (6 * Scale) \div 10>>,
     cyan   |-> <<0, (875 * Scale) \div 1000, (875 * Scale) \div 1000,
                  (6 * Scale) \div 10>>,
     gray   |-> <<(6 * Scale) \div 10, (6 * Scale) \div 10, (6 * Scale) \div 10,
                  (6 * Scale) \div 10>>]

\* GcodeModel.arrow
arrow ==
    << <<0, 0, 0>>,
       <<(4 * Scale) \div 10, -(Scale \div 10), 0>>,
       <<(4 * Scale) \div 10, Scale \div 10, 0>> >>

\* a movement record of the parser: its two points, its flags and the value
\* of its angle() method
Movement(a, b, ang, on, loop, perimeter, outer) ==
    [point_a |-> a, point_b |-> b, angle |-> ang, extruder_on |-> on,
     is_loop |-> loop, is_perimeter |-> perimeter, is_perimeter_outer |-> outer]

\* the end point of a movement of one unit from point a in direction ang
StepFrom(a, ang) ==
    <<a[1] + F(cos_deg(ang)), a[2] + F(sin_deg(ang)), a[3]>>

\* the movements handed to movement_color: every combination of the flags, in
\* each of four directions
AllMovements ==
    { Movement(<<F(1), F(2), F(3)>>, StepFrom(<<F(1), F(2), F(3)>>, ang),
               ang, on, loop, perimeter, outer) :
        ang \in {0, 90, 180, 270}, on \in BOOLEAN, loop \in BOOLEAN,
        perimeter \in BOOLEAN, outer \in BOOLEAN }

\* the movements the layers handed to the constructor are made of: a travel
\* move, an outer perimeter and an infill line, each with points and a
\* direction of its own
SomeMovements ==
    { Movement(<<0, 0, 0>>, StepFrom(<<0, 0, 0>>, 0), 0,
               FALSE, FALSE, FALSE, FALSE),
      Movement(<<F(1), F(1), F(1)>>, StepFrom(<<F(1), F(1), F(1)>>, 180), 180,
               TRUE, FALSE, TRUE, TRUE),
      Movement(<<F(2), F(2), F(2)>>, StepFrom(<<F(2), F(2), F(2)>>, 90), 90,
               TRUE, FALSE, FALSE, FALSE) }

\* Faulty variant: movement_color testing is_loop before extruder_on
movement_color_loop_first(movement) ==
    IF movement.is_loop THEN color_map.yellow
    ELSE IF ~movement.extruder_on THEN color_map.gray
    ELSE IF movement.is_perimeter /\ movement.is_perimeter_outer
        THEN color_map.cyan
    ELSE IF movement.is_perimeter THEN color_map.green
    ELSE color_map.red

\* movement_color(movement)
movement_color(movement) ==
    IF ~movement.extruder_on THEN color_map.gray
    ELSE IF movement.is_loop THEN color_map.yellow
    ELSE IF movement.is_perimeter /\ movement.is_perimeter_outer
        THEN color_map.cyan
    ELSE IF movement.is_perimeter THEN color_map.green
    ELSE color_map.red

\* Faulty variant: one color for each of the two vertices of a movement
movement_colors_per_vertex(movement) ==
    <<movement_color(movement), movement_color(movement)>>

\* what one movement appends to color_list
movement_colors(movement) == <<movement_color(movement)>>

\* Faulty variant: only the end point of a movement is appended
movement_vertices_end_only(movement) == <<movement.point_b>>

\* what one movement appends to vertex_list
movement_vertices(movement) == <<movement.point_a, movement.point_b>>

\* Faulty variant: the index of the last vertex instead of the length
layer_stop_last_index(vl) == Len(vl) - 1

\* what the end of a layer appends to layer_stops
layer_stop(vl) == Len(vl)

\* what one movement appends to arrow_list: the arrow turned about the z axis
movement_arrow(movement) == vector_rotate(arrow, movement.angle, 0, 0, 1)

\* a[1::2]: the elements of a at the odd Python indices
odd_elements(a) == [i \in 1..(Len(a) \div 2) |-> a[2 * i]]

\* a.repeat(n, 0): every element of a, n times in a row
repeat(a, n) == [i \in 1..(n * Len(a)) |-> a[((i - 1) \div n) + 1]]

\* the sum of two arrays of vertices of the same length
add_vertices(a, b) ==
    [i \in 1..Len(a) |-> <<a[i][1] + b[i][1], a[i][2] + b[i][2],
                           a[i][3] + b[i][3]>>]

\* a Python list index: the element at index i of list s (negative indices
\* count from the end), or an IndexError
index_ok(s, i) == -Len(s) <= i /\ i < Len(s)
at(s, i) == IF i >= 0 THEN s[i + 1] ELSE s[Len(s) + i + 1]

(***************************************************************************)
(* Model, BoundingBox and StlModel (actors.py): a vertex buffer is a       *)
(* sequence of rows <<x, y, z>>.                                           *)
(***************************************************************************)
None == <<>>

\* the float product a * b
FMul(a, b) == RoundDiv(a * b, Scale)

\* the float quotient a / b for b # 0, of either sign
FQuot(a, b) == IF b < 0 THEN FDiv(-a, -b) ELSE FDiv(a, b)

Abs(a) == IF a < 0 THEN -a ELSE a

\* round(a, 2): to the nearest hundredth, a >= 0
Round2(a) == RoundDiv(a, Scale \div 100) * (Scale \div 100)

RECURSIVE seq_min(_)
seq_min(s) ==
    IF Len(s) = 1 THEN s[1] ELSE Min(s[1], seq_min(Tail(s)))

RECURSIVE seq_max(_)
seq_max(s) ==
    IF Len(s) = 1 THEN s[1] ELSE Max(s[1], seq_max(Tail(s)))

\* Faulty variant: the buffer read row after row (order='C')
reshape_C(vs) ==
    [k \in 1..(3 * Len(vs)) |-> vs[((k - 1) \div 3) + 1][((k - 1) % 3) + 1]]

\* vertices.reshape(-1, order='F'): the buffer read column after column
reshape_F(vs) ==
    [k \in 1..(3 * Len(vs)) |->
        vs[((k - 1) % Len(vs)) + 1][((k - 1) \div Len(vs)) + 1]]

\* .reshape(3, -1): the flat array cut into three rows
xyz_rows(vs) ==
    LET flat == reshape_F(vs)
        n == Len(flat) \div 3
    IN  [r \in 1..3 |-> [c \in 1..n |-> flat[(r - 1) * n + c]]]

BoundingBox(upper_corner, lower_corner) ==
    [upper_corner |-> upper_corner, lower_corner |-> lower_corner]

width(box) == Round2(Abs(box.upper_corner[1] - box.lower_corner[1]))
depth(box) == Round2(Abs(box.upper_corner[2] - box.lower_corner[2]))
height(box) == Round2(Abs(box.upper_corner[3] - box.lower_corner[3]))

\* _calculate_bounding_box: min and max of an empty row raise ValueError
calculate_bounding_box(vs) ==
    IF Len(vs) = 0 THEN [err |-> "ValueError", box |-> None]
    ELSE LET rows == xyz_rows(vs)
             lower_corner == [r \in 1..3 |-> seq_min(rows[r])]
             upper_corner == [r \in 1..3 |-> seq_max(rows[r])]
         IN  [err |-> "none", box |-> BoundingBox(upper_corner, lower_corner)]

\* the bounding_box property: the box returned and the cache afterwards
bounding_box(vs, cache) ==
    IF cache = None
    THEN LET c == calculate_bounding_box(vs)
         IN  [err |-> c.err, box |-> c.box, cache |-> c.box]
    ELSE [err |-> "none", box |-> cache, cache |-> cache]

\* Faulty variant: translate that leaves z alone
vector_translate_xy(vs, x, y, z) ==
    [i \in 1..Len(vs) |-> <<vs[i][1] + x, vs[i][2] + y, vs[i][3]>>]

\* vector.translate
vector_translate(vs, x, y, z) ==
    [i \in 1..Len(vs) |-> <<vs[i][1] + x, vs[i][2] + y, vs[i][3] + z>>]

\* self.vertices *= (factor / self.scaling_factor)
scale_vertices(vs, factor, sf) ==
    [i \in 1..Len(vs) |-> [j \in 1..3 |-> FMul(vs[i][j], FQuot(factor, sf))]]

\* Faulty variant: scale that keeps the cached box
scale_keeps_cache(vs, sf, cache, factor) ==
    IF factor = sf
    THEN [err |-> "none", vertices |-> vs, scaling_factor |-> sf,
          cache |-> cache]
    ELSE IF sf = 0
    THEN [err |-> "ZeroDivisionError", vertices |-> vs,
          scaling_factor |-> sf, cache |-> cache]
    ELSE [err |-> "none", vertices |-> scale_vertices(vs, factor, sf),
          scaling_factor |-> factor, cache |-> cache]

\* Faulty variant: rotate that turns the normals with the vertices
mesh_rotate_with_normals(vs, ns, angle, x, y, z) ==
    [vertices |-> vector_rotate(vs, angle, x, y, z),
     normals |-> vector_rotate(ns, angle, x, y, z)]

\* StlModel.rotate on a mesh with vertices: self.vertices is replaced,
\* self.normals is not touched
mesh_rotate(vs, ns, angle, x, y, z) ==
    [vertices |-> vector_rotate(vs, angle, x, y, z), normals |-> ns]

\* StlModel.scale: the division raises when scaling_factor is 0, before
\* anything is changed
mesh_scale(vs, sf, cache, factor) ==
    IF factor = sf
    THEN [err |-> "none", vertices |-> vs, scaling_factor |-> sf,
          cache |-> cache]
    ELSE IF sf = 0
    THEN [err |-> "ZeroDivisionError", vertices |-> vs,
          scaling_factor |-> sf, cache |-> cache]
    ELSE [err |-> "none", vertices |-> scale_vertices(vs, factor, sf),
          scaling_factor |-> factor, cache |-> None]

(***************************************************************************)
(* The OpenGL matrix state the views work on: gl.mode names the current    *)
(* stack, a stack is a sequence of matrices with the current matrix last,  *)
(* and a matrix is the sequence of the transformations multiplied onto the *)
(* identity <<>>.                                                          *)
(***************************************************************************)
GL_PROJECTION == "projection"
GL_MODELVIEW == "modelview"

glMatrixMode(g, mode) == [g EXCEPT !.mode = mode]

glPushMatrix(g) == [g EXCEPT ![g.mode] = Append(@, @[Len(@)])]

glPopMatrix(g) == [g EXCEPT ![g.mode] = SubSeq(@, 1, Len(@) - 1)]

glLoadIdentity(g) == [g EXCEPT ![g.mode][Len(g[g.mode])] = <<>>]

\* glOrtho, gluPerspective, glTranslate, glRotate, glScale: the current
\* matrix times the matrix of the call
glMultiply(g, call) == [g EXCEPT ![g.mode][Len(g[g.mode])] = Append(@, call)]

NEAR == F(-100)
FAR == F(100)
FOVY == F(80)

\* f *= self.ZOOM_ORTHO_ADJ
ZOOM_ORTHO_ADJ(f) == MulLit(f, 45, 10)

\* View2D.begin(w, h)
View2D_begin(g, w, h) ==
    LET g1 == glPushMatrix(glMatrixMode(g, GL_PROJECTION))
        g2 == glMultiply(glLoadIdentity(g1),
                         <<"glOrtho", 0, F(w), 0, F(h), NEAR, FAR>>)
        g3 == glPushMatrix(glMatrixMode(g2, GL_MODELVIEW))
    IN  glLoadIdentity(g3)

\* View3D.begin(w, h), for h # 0
View3D_begin(g, w, h, o) ==
    LET g1 == glLoadIdentity(glPushMatrix(glMatrixMode(g, GL_PROJECTION)))
        g2 == IF o
              THEN glMultiply(g1, <<"glOrtho", -(F(w) \div 2), F(w) \div 2,
                                    -(F(h) \div 2), F(h) \div 2,
                                    F(-9000), F(9000)>>)
              ELSE glMultiply(g1, <<"gluPerspective", FOVY, FDiv(F(w), F(h)),
                                    Scale \div 10, F(9000)>>)
        g3 == glPushMatrix(glMatrixMode(g2, GL_MODELVIEW))
    IN  glLoadIdentity(g3)

\* Faulty variant: View2D.end leaving the size of the window in place
View2D_end_size_kept(wh) == wh

\* View2D.end: self.w, self.h = None, None
View2D_end_size(wh) == None

\* View2D.end and View3D.end: the two stacks popped
view_end(g) ==
    LET g1 == glPopMatrix(glMatrixMode(g, GL_PROJECTION))
    IN  glPopMatrix(glMatrixMode(g1, GL_MODELVIEW))

\* View2D._center_on_origin, for w and h set
center_on_origin(g, w, h) ==
    LET g1 == glLoadIdentity(glMatrixMode(g, GL_PROJECTION))
        x == F(w) \div 2
        y == F(h) \div 2
    IN  glMatrixMode(glMultiply(g1, <<"glOrtho", -x, x, -y, y, NEAR, FAR>>),
                     GL_MODELVIEW)

\* View2D.display_transform, for w and h set
View2D_display_transform(g, a, w, h) ==
    LET g1 == center_on_origin(g, w, h)
        g2 == glMultiply(g1, <<"glTranslate", a.x, a.y, a.z>>)
        g3 == glMultiply(g2, <<"glRotate", a.azimuth, 0, 0, F(1)>>)
    IN  glMultiply(g3, <<"glScale", a.zoom_factor, a.zoom_factor,
                         a.zoom_factor>>)

\* Faulty variant: the adjusted zoom written back to self.zoom_factor
View3D_display_transform_stores_zoom(g, a) ==
    LET g1 == glMultiply(g, <<"glRotate", F(-90), F(1), 0, 0>>)
        g2 == glMultiply(g1, <<"glTranslate", 0, a.y, 0>>)
        f == IF a.ortho THEN ZOOM_ORTHO_ADJ(a.zoom_factor) ELSE a.zoom_factor
        g3 == glMultiply(g2, <<"glScale", f, f, f>>)
        g4 == glMultiply(g3, <<"glTranslate", a.x, 0, a.z>>)
        g5 == glMultiply(g4, <<"glRotate", -a.elevation, F(1), 0, 0>>)
    IN  [gl |-> glMultiply(g5, <<"glRotate", a.azimuth, 0, 0, F(1)>>),
         attrs |-> [a EXCEPT !.zoom_factor = f]]

\* View3D.display_transform: the OpenGL state and the attributes after it;
\* f is a local variable
View3D_display_transform(g, a) ==
    LET g1 == glMultiply(g, <<"glRotate", F(-90), F(1), 0, 0>>)
        g2 == glMultiply(g1, <<"glTranslate", 0, a.y, 0>>)
        f == IF a.ortho THEN ZOOM_ORTHO_ADJ(a.zoom_factor) ELSE a.zoom_factor
        g3 == glMultiply(g2, <<"glScale", f, f, f>>)
        g4 == glMultiply(g3, <<"glTranslate", a.x, 0, a.z>>)
        g5 == glMultiply(g4, <<"glRotate", -a.elevation, F(1), 0, 0>>)
    IN  [gl |-> glMultiply(g5, <<"glRotate", a.azimuth, 0, 0, F(1)>>),
         attrs |-> a]

\* View2D.ui_transform(length)
View2D_ui_transform(g, a, length) ==
    LET g1 == glMultiply(g, <<"glTranslate", length + F(20), length + F(20), 0>>)
    IN  glMultiply(g1, <<"glRotate", a.azimuth, 0, 0, F(1)>>)

\* View3D.ui_transform(length)
View3D_ui_transform(g, a, length) ==
    LET g1 == glMultiply(g, <<"glRotate", F(-90), F(1), 0, 0>>)
        g2 == glMultiply(g1, <<"glTranslate", length + F(20), 0, length + F(20)>>)
        g3 == glMultiply(g2, <<"glRotate", -a.elevation, F(1), 0, 0>>)
    IN  glMultiply(g3, <<"glRotate", a.azimuth, 0, 0, F(1)>>)

(***************************************************************************)
(* The objects a specification does not construct.                         *)
(***************************************************************************)
EmptyMap == [n \in {} |-> 0]

NoView ==
    /\ kind = "none"
    /\ attrs = EmptyMap
    /\ stack = <<>>
    /\ raised = FALSE
    /\ lastOp = "none"
    /\ lastArgs = <<>>
    /\ fuel = 0
    /\ snaps = <<>>
    /\ clean = FALSE
    /\ gest = 0
    /\ undone = 0
    /\ popped = <<>>
    /\ resets = 0
    /\ run = [open |-> FALSE, n |-> 0]

NoGcodeModel ==
    /\ gpc = "none"
    /\ model_data = <<>>
    /\ vertex_list = <<>>
    /\ color_list = <<>>
    /\ arrow_list = <<>>
    /\ layer_stops = <<>>
    /\ vertices = <<>>
    /\ colors = <<>>
    /\ arrows = <<>>
    /\ max_layers = 0
    /\ num_layers_to_draw = 0
    /\ arrows_enabled = FALSE
    /\ initialized = FALSE
    /\ vbo = EmptyMap
    /\ drawn = EmptyMap
    /\ gerr = "none"
    /\ glastOp = "none"

NoColorCall ==
    /\ cmove = EmptyMap
    /\ ccolor = <<>>

NoMesh ==
    /\ mesh_vertices = <<>>
    /\ mesh_normals = <<>>
    /\ scaling_factor = 0
    /\ cached_box = None
    /\ mesh_returned = None
    /\ mesh_err = "none"
    /\ mesh_calls = 0
    /\ mesh_log = <<>>

NoFrame ==
    /\ view_wh = None
    /\ gl = EmptyMap
    /\ frame = "none"
    /\ gl_before = EmptyMap
    /\ frame_err = "none"
    /\ frame_op = "none"
    /\ frame_calls = 0

NoVectorCall ==
    /\ vec_buf = <<>>
    /\ vec_arg = None
    /\ vec_calls = 0
    /\ vec_log = <<>>

\* one object alone: none of the others exists
OnlyView == NoGcodeModel /\ NoColorCall /\ NoMesh /\ NoVectorCall /\ NoFrame
OnlyGcode == NoView /\ NoColorCall /\ NoMesh /\ NoVectorCall /\ NoFrame
OnlyColor == NoView /\ NoGcodeModel /\ NoMesh /\ NoVectorCall /\ NoFrame
OnlyMesh == NoView /\ NoGcodeModel /\ NoColorCall /\ NoVectorCall /\ NoFrame
OnlyVector == NoView /\ NoGcodeModel /\ NoColorCall /\ NoMesh /\ NoFrame
OnlyFrame == NoGcodeModel /\ NoColorCall /\ NoMesh /\ NoVectorCall

(***************************************************************************)
(* The view as a state machine.                                            *)
(***************************************************************************)
\* the object as its constructor leaves it: the attributes set and one
\* snapshot pushed
Constructed(k) ==
    /\ kind = k
    /\ attrs = ctor_attrs(k)
    /\ stack = push_state_on(k, ctor_attrs(k), <<>>)
    /\ raised = FALSE
    /\ lastOp = "__init__"
    /\ lastArgs = <<>>
    /\ snaps = <<ctor_attrs(k)>>
    /\ clean = TRUE
    /\ gest = 0
    /\ undone = 0
    /\ popped = <<>>
    /\ resets = 0

InitView ==
    /\ \E k \in {"View2D", "View3D"} : Constructed(k)
    /\ fuel = MaxSteps
    /\ run = [open |-> FALSE, n |-> 0]
    /\ OnlyView

\* the same object, whose caller may first make a run of up to MaxBurst zoom
\* calls in one direction on top of its MaxZoomSteps calls
InitZoom ==
    /\ \E k \in {"View2D", "View3D"} : Constructed(k)
    /\ fuel = MaxZoomSteps
    /\ run = [open |-> TRUE, n |-> 0]
    /\ OnlyView

\* one of the calls the caller may make; it ends the opening run
Call ==
    /\ fuel > 0
    /\ fuel' = fuel - 1
    /\ run' = [run EXCEPT !.open = FALSE]

GestureEffect(op, a) ==
    /\ attrs' = a
    /\ lastOp' = op
    /\ raised' = FALSE
    /\ gest' = gest + 1
    /\ undone' = 0
    /\ popped' = <<>>
    /\ UNCHANGED <<kind, stack, snaps, clean, resets>>
    /\ UNCHANGED outsideView

Gesture(op, a) == Call /\ GestureEffect(op, a)

zoom ==
    \E d \in Deltas :
        /\ Gesture("zoom", [attrs EXCEPT !.zoom_factor = zoom_value(@, d[2])])
        /\ lastArgs' = d

\* a zoom call of the opening run: in the direction of the run so far
zoom_run ==
    \E d \in {<<0, 1>>, <<0, -1>>} :
        /\ run.open
        /\ run.n * d[2] >= 0
        /\ run.n * d[2] < MaxBurst
        /\ run' = [run EXCEPT !.n = @ + d[2]]
        /\ GestureEffect("zoom",
                         [attrs EXCEPT !.zoom_factor = zoom_value(@, d[2])])
        /\ lastArgs' = d
        /\ UNCHANGED fuel

rotate ==
    \E d \in Deltas :
        /\ Gesture("rotate", rotate_attrs(kind, attrs, d[1], d[2]))
        /\ lastArgs' = d

pan ==
    \E d \in Deltas :
        /\ Gesture("pan", pan_attrs(kind, attrs, d[1], d[2]))
        /\ lastArgs' = d

push_state ==
    /\ Call
    /\ stack' = push_state_on(kind, attrs, stack)
    /\ lastOp' = "push_state"
    /\ lastArgs' = <<>>
    /\ raised' = FALSE
    /\ snaps' = Append(snaps, attrs)
    /\ clean' = TRUE
    /\ gest' = 0
    /\ undone' = 0
    /\ popped' = <<>>
    /\ resets' = 0
    /\ UNCHANGED <<kind, attrs>>
    /\ UNCHANGED outsideView

pop_state ==
    LET p == pop_state_on(kind, attrs, stack)
    IN  /\ Call
        /\ attrs' = p.attrs
        /\ stack' = p.stack
        /\ raised' = p.raised
        /\ lastOp' = "pop_state"
        /\ lastArgs' = <<>>
        /\ snaps' = IF snaps = <<>> THEN snaps
                    ELSE SubSeq(snaps, 1, Len(snaps) - 1)
        /\ clean' = FALSE
        /\ gest' = 0
        /\ undone' = gest
        /\ popped' = IF p.raised THEN <<>> ELSE Append(popped, p.attrs)
        /\ resets' = 0
        /\ UNCHANGED kind
        /\ UNCHANGED outsideView

reset_state ==
    LET r == reset_state_on(kind, attrs, stack)
    IN  /\ Call
        /\ attrs' = r.attrs
        /\ stack' = r.stack
        /\ raised' = r.raised
        /\ lastOp' = "reset_state"
        /\ lastArgs' = <<>>
        /\ snaps' = IF r.raised THEN snaps
                    ELSE Append(SubSeq(snaps, 1, Len(snaps) - 1), r.attrs)
        /\ clean' = IF r.raised THEN clean ELSE TRUE
        /\ gest' = 0
        /\ undone' = gest
        /\ popped' = <<>>
        /\ resets' = IF r.raised THEN resets ELSE resets + 1
        /\ UNCHANGED kind
        /\ UNCHANGED outsideView

NextView == zoom \/ rotate \/ pan \/ push_state \/ pop_state \/ reset_state

SpecView == InitView /\ [][NextView]_vars

NextZoom == zoom_run \/ NextView

SpecZoom == InitZoom /\ [][NextZoom]_vars

(***************************************************************************)
(* The GcodeModel as a state machine: the constructor reads model_data one *)
(* layer and one movement at a time, then the caller sets the public       *)
(* attributes and calls init and display.                                  *)
(***************************************************************************)
\* the movements read so far
RECURSIVE CountMoves(_)
CountMoves(data) ==
    IF data = <<>> THEN 0 ELSE Len(Head(data)) + CountMoves(Tail(data))

\* the values the caller gives to num_layers_to_draw: a negative one, zero,
\* the layers of the model and one above
LayerSelectors == (-1)..(max_layers + 1)

\* lines 213-223 and 178-181: the arrays, the translation of the arrows and
\* the assertion; err names the exception raised, if any
create_arrays(vl, cl, al) ==
    LET ends == repeat(odd_elements(vl), 3)
    IN  IF Len(al) # Len(ends)
        THEN [vertices |-> vl, colors |-> cl, arrows |-> al,
              err |-> "ValueError"]
        ELSE LET moved == add_vertices(al, ends)
             IN  [vertices |-> vl, colors |-> cl, arrows |-> moved,
                  err |-> IF Len(moved) = (Len(vl) \div 2) * 3
                          THEN "none" ELSE "AssertionError"]

\* Faulty variant: _display_movements handing the end offset as the count
display_movements_end_as_count(mode_2d) ==
    IF "vertex_buffer" \notin DOMAIN vbo THEN [err |-> "AttributeError"]
    ELSE IF ~index_ok(layer_stops, num_layers_to_draw)
            \/ (mode_2d /\ ~index_ok(layer_stops, num_layers_to_draw - 1))
    THEN [err |-> "IndexError"]
    ELSE [err |-> "none",
          start |-> IF mode_2d THEN at(layer_stops, num_layers_to_draw - 1)
                    ELSE 0,
          count |-> at(layer_stops, num_layers_to_draw)]

\* _display_movements: the glDrawArrays call, or the exception
display_movements(mode_2d) ==
    IF "vertex_buffer" \notin DOMAIN vbo THEN [err |-> "AttributeError"]
    ELSE IF mode_2d
    THEN IF ~index_ok(layer_stops, num_layers_to_draw - 1)
            \/ ~index_ok(layer_stops, num_layers_to_draw)
         THEN [err |-> "IndexError"]
         ELSE LET start == at(layer_stops, num_layers_to_draw - 1)
                  end == at(layer_stops, num_layers_to_draw) - start
              IN  [err |-> "none", start |-> start, count |-> end]
    ELSE IF ~index_ok(layer_stops, num_layers_to_draw)
         THEN [err |-> "IndexError"]
         ELSE [err |-> "none", start |-> 0,
               count |-> at(layer_stops, num_layers_to_draw)]

\* _display_arrows: the glDrawArrays call, or the exception
display_arrows ==
    IF "arrow_buffer" \notin DOMAIN vbo THEN [err |-> "AttributeError"]
    ELSE IF ~index_ok(layer_stops, num_layers_to_draw - 1)
            \/ ~index_ok(layer_stops, num_layers_to_draw)
    THEN [err |-> "IndexError"]
    ELSE LET start == (at(layer_stops, num_layers_to_draw - 1) \div 2) * 3
             end == (at(layer_stops, num_layers_to_draw) \div 2) * 3
         IN  [err |-> "none", start |-> start, count |-> end - start]

NoCall == [err |-> "none"]

InitGcode ==
    /\ gpc = "layers"
    /\ model_data = <<>>
    /\ vertex_list = <<>>
    /\ color_list = <<>>
    /\ arrow_list = <<>>
    /\ layer_stops = <<0>>
    /\ vertices = <<>>
    /\ colors = <<>>
    /\ arrows = <<>>
    /\ max_layers = 0
    /\ num_layers_to_draw = 0
    /\ arrows_enabled = FALSE
    /\ initialized = FALSE
    /\ vbo = EmptyMap
    /\ drawn = EmptyMap
    /\ gerr = "none"
    /\ glastOp = "create_vertex_arrays"
    /\ OnlyGcode

\* for layer in model_data: the next layer
next_layer ==
    /\ gpc = "layers"
    /\ Len(model_data) < MaxLayers
    /\ gpc' = "movements"
    /\ model_data' = Append(model_data, <<>>)
    /\ UNCHANGED <<vertex_list, color_list, arrow_list, layer_stops, vertices,
                   colors, arrows, max_layers, num_layers_to_draw,
                   arrows_enabled, initialized, vbo, drawn, gerr, glastOp>>
    /\ UNCHANGED outsideGcode

\* for movement in layer: the body of the loop, for the next movement
next_movement ==
    \E movement \in SomeMovements :
        /\ gpc = "movements"
        /\ CountMoves(model_data) < MaxMoves
        /\ model_data' = [model_data EXCEPT ![Len(model_data)] =
                                                Append(@, movement)]
        /\ vertex_list' = vertex_list \o movement_vertices(movement)
        /\ arrow_list' = arrow_list \o movement_arrow(movement)
        /\ color_list' = color_list \o movement_colors(movement)
        /\ UNCHANGED <<gpc, layer_stops, vertices, colors, arrows, max_layers,
                       num_layers_to_draw, arrows_enabled, initialized, vbo,
                       drawn, gerr, glastOp>>
        /\ UNCHANGED outsideGcode

\* the end of a layer: self.layer_stops.append(len(vertex_list))
end_layer ==
    /\ gpc = "movements"
    /\ gpc' = "layers"
    /\ layer_stops' = Append(layer_stops, layer_stop(vertex_list))
    /\ UNCHANGED <<model_data, vertex_list, color_list, arrow_list, vertices,
                   colors, arrows, max_layers, num_layers_to_draw,
                   arrows_enabled, initialized, vbo, drawn, gerr, glastOp>>
    /\ UNCHANGED outsideGcode

\* the end of model_data: the rest of create_vertex_arrays and of __init__
end_data ==
    LET r == create_arrays(vertex_list, color_list, arrow_list)
    IN  /\ gpc = "layers"
        /\ vertices' = r.vertices
        /\ colors' = r.colors
        /\ arrows' = r.arrows
        /\ gerr' = r.err
        /\ glastOp' = "__init__"
        /\ vertex_list' = <<>>
        /\ color_list' = <<>>
        /\ arrow_list' = <<>>
        /\ IF r.err = "none"
           THEN /\ gpc' = "ready"
                /\ max_layers' = Len(layer_stops) - 1
                /\ num_layers_to_draw' = Len(layer_stops) - 1
                /\ arrows_enabled' = TRUE
                /\ initialized' = FALSE
           ELSE /\ gpc' = "failed"
                /\ UNCHANGED <<max_layers, num_layers_to_draw, arrows_enabled,
                               initialized>>
        /\ UNCHANGED <<model_data, layer_stops, vbo, drawn>>
        /\ UNCHANGED outsideGcode

\* the caller sets num_layers_to_draw
set_num_layers_to_draw ==
    \E n \in LayerSelectors :
        /\ gpc = "ready"
        /\ num_layers_to_draw' = n
        /\ glastOp' = "num_layers_to_draw"
        /\ gerr' = "none"
        /\ drawn' = EmptyMap
        /\ UNCHANGED <<gpc, model_data, vertex_list, color_list, arrow_list,
                       layer_stops, vertices, colors, arrows, max_layers,
                       arrows_enabled, initialized, vbo>>
        /\ UNCHANGED outsideGcode

\* the caller sets arrows_enabled
set_arrows_enabled ==
    \E b \in BOOLEAN :
        /\ gpc = "ready"
        /\ arrows_enabled' = b
        /\ glastOp' = "arrows_enabled"
        /\ gerr' = "none"
        /\ drawn' = EmptyMap
        /\ UNCHANGED <<gpc, model_data, vertex_list, color_list, arrow_list,
                       layer_stops, vertices, colors, arrows, max_layers,
                       num_layers_to_draw, initialized, vbo>>
        /\ UNCHANGED outsideGcode

\* GcodeModel.init
init ==
    /\ gpc = "ready"
    /\ vbo' = LET base == [n \in {"vertex_buffer", "vertex_color_buffer"} |->
                            IF n = "vertex_buffer" THEN vertices
                            ELSE repeat(colors, 2)]
                  more == [n \in {"arrow_buffer", "arrow_color_buffer"} |->
                            IF n = "arrow_buffer" THEN arrows
                            ELSE repeat(colors, 3)]
                  old == [n \in DOMAIN vbo \ DOMAIN base |-> vbo[n]]
              IN  IF arrows_enabled THEN base @@ more ELSE base @@ old
    /\ initialized' = TRUE
    /\ glastOp' = "init"
    /\ gerr' = "none"
    /\ drawn' = EmptyMap
    /\ UNCHANGED <<gpc, model_data, vertex_list, color_list, arrow_list,
                   layer_stops, vertices, colors, arrows, max_layers,
                   num_layers_to_draw, arrows_enabled>>
    /\ UNCHANGED outsideGcode

\* GcodeModel.display(mode_2d)
display ==
    \E mode_2d \in BOOLEAN :
        LET m == display_movements(mode_2d)
            a == IF m.err = "none" /\ arrows_enabled
                 THEN display_arrows ELSE NoCall
        IN  /\ gpc = "ready"
            /\ drawn' = [mode_2d |-> mode_2d,
                         movements |-> IF m.err = "none"
                                       THEN <<m.start, m.count>> ELSE <<>>,
                         arrows |-> IF m.err = "none" /\ arrows_enabled
                                       /\ a.err = "none"
                                    THEN <<a.start, a.count>> ELSE <<>>]
            /\ gerr' = IF m.err # "none" THEN m.err ELSE a.err
            /\ glastOp' = "display"
            /\ UNCHANGED <<gpc, model_data, vertex_list, color_list,
                           arrow_list, layer_stops, vertices, colors, arrows,
                           max_layers, num_layers_to_draw, arrows_enabled,
                           initialized, vbo>>
            /\ UNCHANGED outsideGcode

NextGcode ==
    \/ next_layer \/ next_movement \/ end_layer \/ end_data
    \/ set_num_layers_to_draw \/ set_arrows_enabled \/ init \/ display

SpecGcode == InitGcode /\ [][NextGcode]_vars

(***************************************************************************)
(* movement_color, called on one movement.                                 *)
(***************************************************************************)
InitColor ==
    /\ cmove \in AllMovements
    /\ ccolor = <<>>
    /\ OnlyColor

call_movement_color ==
    /\ ccolor = <<>>
    /\ ccolor' = movement_color(cmove)
    /\ UNCHANGED cmove
    /\ UNCHANGED outsideColor

\* the caller goes on to another movement
another_movement ==
    /\ ccolor # <<>>
    /\ cmove' \in AllMovements
    /\ ccolor' = <<>>
    /\ UNCHANGED outsideColor

NextColor == call_movement_color \/ another_movement

SpecColor == InitColor /\ [][NextColor]_vars

(***************************************************************************)
(* The StlModel as a state machine: constructed from a list of vertices    *)
(* and a list of normals, then scaled, translated, rotated and asked for   *)
(* its bounding box by the caller.                                         *)
(***************************************************************************)
\* the sequences over S of length at most n
SeqsUpTo(S, n) == UNION {[1..k -> S] : k \in 0..n}

\* vertices of the meshes handed to the constructor
Points == {<<F(1), F(2), F(3)>>, <<F(-2), F(4), F(0)>>}

\* the factors handed to scale: 0, 0.5, 1, 2 and -1
Factors == {0, Scale \div 2, F(1), F(2), F(-1)}

\* the offsets handed to translate
Offsets == {<<F(1), F(-2), F(4)>>, <<F(-1), F(2), F(-4)>>}

\* the angle and the axis handed to StlModel.rotate
MeshTurns == {<<90, 0, 0, 1>>, <<180, 1, 0, 0>>}

InitMesh ==
    /\ \E vs \in SeqsUpTo(Points, MaxVertices) :
            /\ mesh_vertices = vs
            /\ mesh_normals = [i \in 1..Len(vs) |-> <<0, 0, F(1)>>]
    /\ scaling_factor = F(1)
    /\ cached_box = None
    /\ mesh_returned = None
    /\ mesh_err = "none"
    /\ mesh_calls = MaxMeshCalls
    /\ mesh_log = <<>>
    /\ OnlyMesh

\* one more call by the caller, recorded with the object as it is now
MeshCall(op, args) ==
    /\ mesh_calls > 0
    /\ mesh_calls' = mesh_calls - 1
    /\ mesh_log' = Append(mesh_log,
                          [op |-> op, args |-> args,
                           vertices |-> mesh_vertices,
                           scaling_factor |-> scaling_factor,
                           cached_box |-> cached_box])
    /\ UNCHANGED outsideMesh

\* StlModel.scale(factor)
StlModel_scale ==
    \E factor \in Factors :
        LET r == mesh_scale(mesh_vertices, scaling_factor, cached_box, factor)
        IN  /\ MeshCall("scale", <<factor>>)
            /\ mesh_vertices' = r.vertices
            /\ scaling_factor' = r.scaling_factor
            /\ cached_box' = r.cache
            /\ mesh_err' = r.err
            /\ mesh_returned' = None
            /\ UNCHANGED mesh_normals

\* StlModel.translate(x, y, z): a mesh made from an empty list is an array
\* of shape (0,), which does not broadcast with [x, y, z]
StlModel_translate ==
    \E o \in Offsets :
        /\ MeshCall("translate", o)
        /\ IF Len(mesh_vertices) = 0
           THEN /\ mesh_err' = "ValueError"
                /\ UNCHANGED <<mesh_vertices, cached_box>>
           ELSE /\ mesh_err' = "none"
                /\ mesh_vertices' =
                        vector_translate(mesh_vertices, o[1], o[2], o[3])
                /\ cached_box' = None
        /\ mesh_returned' = None
        /\ UNCHANGED <<mesh_normals, scaling_factor>>

\* StlModel.rotate(angle, x, y, z): an array of shape (0,) has no dot
\* product with the 3 x 3 matrix
StlModel_rotate ==
    \E t \in MeshTurns :
        /\ MeshCall("rotate", t)
        /\ IF Len(mesh_vertices) = 0
           THEN /\ mesh_err' = "ValueError"
                /\ UNCHANGED <<mesh_vertices, mesh_normals, cached_box>>
           ELSE LET r == mesh_rotate(mesh_vertices, mesh_normals,
                                     t[1], t[2], t[3], t[4])
                IN  /\ mesh_err' = "none"
                    /\ mesh_vertices' = r.vertices
                    /\ mesh_normals' = r.normals
                    /\ cached_box' = None
        /\ mesh_returned' = None
        /\ UNCHANGED scaling_factor

\* a read of the bounding_box property
read_bounding_box ==
    LET r == bounding_box(mesh_vertices, cached_box)
    IN  /\ MeshCall("bounding_box", <<>>)
        /\ cached_box' = r.cache
        /\ mesh_err' = r.err
        /\ mesh_returned' = r.box
        /\ UNCHANGED <<mesh_vertices, mesh_normals, scaling_factor>>

NextMesh ==
    StlModel_scale \/ StlModel_translate \/ StlModel_rotate
        \/ read_bounding_box

SpecMesh == InitMesh /\ [][NextMesh]_vars

(***************************************************************************)
(* vector.py as a state machine: the caller hands a buffer of shape (n, 3) *)
(* to translate or rotate and goes on with the buffer returned.            *)
(***************************************************************************)
\* the angles handed to rotate, in degrees
Angles == {0, 90, 360}

\* the axes handed to rotate: two of unit length and the zero vector
Axes == {<<0, 0, 1>>, <<1, 0, 0>>, <<0, 0, 0>>}

InitVector ==
    /\ vec_buf \in SeqsUpTo(Points, MaxVertices)
    /\ vec_arg = None
    /\ vec_calls = MaxVectorCalls
    /\ vec_log = <<>>
    /\ OnlyVector

\* one more call by the caller on the buffer at hand
VectorCall(op, args) ==
    /\ vec_calls > 0
    /\ vec_calls' = vec_calls - 1
    /\ vec_log' = Append(vec_log,
                         [op |-> op, args |-> args, vertices |-> vec_buf])
    /\ UNCHANGED outsideVector

\* translate(vertices, x, y, z): vertices + [x, y, z] is a new array
call_translate ==
    \E o \in Offsets :
        /\ VectorCall("translate", o)
        /\ vec_buf' = vector_translate(vec_buf, o[1], o[2], o[3])
        /\ vec_arg' = vec_buf

\* rotate(vertices, angle, x, y, z): vertices.dot(matrix) is a new array
call_rotate ==
    \E angle \in Angles, axis \in Axes :
        /\ VectorCall("rotate", <<angle>> \o axis)
        /\ vec_buf' = vector_rotate(vec_buf, angle, axis[1], axis[2], axis[3])
        /\ vec_arg' = vec_buf

NextVector == call_translate \/ call_rotate

SpecVector == InitVector /\ [][NextVector]_vars

(***************************************************************************)
(* A frame as a state machine: the caller opens it with begin(w, h),       *)
(* applies display_transform and ui_transform, draws the models and closes *)
(* it with end().  The caller is not part of libtatlin: it makes the calls *)
(* one after the other, so that an exception raised by a drawing step      *)
(* leaves the frame without end() being called.                            *)
(***************************************************************************)
\* the matrix on each stack before the first frame
PriorMatrix == << <<"glLoadMatrix", "prior">> >>

\* the window sizes handed to begin
Sizes == {<<4, 2>>, <<6, 3>>}

\* the length handed to ui_transform
Lengths == {F(10)}

InitFrame ==
    /\ \E k \in {"View2D", "View3D"} : Constructed(k)
    /\ fuel = 0
    /\ run = [open |-> FALSE, n |-> 0]
    /\ view_wh = None
    /\ gl = [mode |-> GL_MODELVIEW,
             projection |-> <<PriorMatrix>>,
             modelview |-> <<PriorMatrix>>]
    /\ frame = "none"
    /\ gl_before = [mode |-> GL_MODELVIEW,
                    projection |-> <<PriorMatrix>>,
                    modelview |-> <<PriorMatrix>>]
    /\ frame_err = "none"
    /\ frame_op = "__init__"
    /\ frame_calls = MaxFrameCalls
    /\ OnlyFrame

\* one more call by the caller
FrameCall(op) ==
    /\ frame_calls > 0
    /\ frame_calls' = frame_calls - 1
    /\ frame_op' = op
    /\ UNCHANGED outsideFrame

\* the caller selects the projection of a View3D
set_ortho ==
    \E b \in BOOLEAN :
        /\ kind = "View3D"
        /\ frame # "open"
        /\ FrameCall("ortho")
        /\ attrs' = [attrs EXCEPT !.ortho = b]
        /\ frame_err' = "none"
        /\ UNCHANGED <<view_wh, gl, frame, gl_before>>

\* begin(w, h)
begin ==
    \E s \in Sizes :
        /\ frame # "open"
        /\ FrameCall("begin")
        /\ gl_before' = gl
        /\ frame' = "open"
        /\ frame_err' = "none"
        /\ IF kind = "View2D"
           THEN /\ view_wh' = s
                /\ gl' = View2D_begin(gl, s[1], s[2])
           ELSE /\ gl' = View3D_begin(gl, s[1], s[2], attrs.ortho)
                /\ UNCHANGED view_wh
        /\ UNCHANGED attrs

\* end()
end ==
    /\ frame = "open"
    /\ FrameCall("end")
    /\ gl' = view_end(gl)
    /\ frame' = "closed"
    /\ frame_err' = "none"
    /\ IF kind = "View2D"
       THEN view_wh' = View2D_end_size(view_wh)
       ELSE UNCHANGED view_wh
    /\ UNCHANGED <<attrs, gl_before>>

\* display_transform(): in a View2D whose w is None, _center_on_origin
\* raises TypeError at self.w / 2, after glLoadIdentity
display_transform ==
    /\ FrameCall("display_transform")
    /\ IF kind = "View3D"
       THEN /\ gl' = View3D_display_transform(gl, attrs).gl
            /\ attrs' = View3D_display_transform(gl, attrs).attrs
            /\ frame_err' = "none"
       ELSE IF view_wh = None
       THEN /\ gl' = glLoadIdentity(glMatrixMode(gl, GL_PROJECTION))
            /\ frame_err' = "TypeError"
            /\ UNCHANGED attrs
       ELSE /\ gl' = View2D_display_transform(gl, attrs, view_wh[1], view_wh[2])
            /\ frame_err' = "none"
            /\ UNCHANGED attrs
    /\ UNCHANGED <<view_wh, frame, gl_before>>

\* ui_transform(length)
ui_transform ==
    \E length \in Lengths :
        /\ FrameCall("ui_transform")
        /\ gl' = IF kind = "View2D"
                 THEN View2D_ui_transform(gl, attrs, length)
                 ELSE View3D_ui_transform(gl, attrs, length)
        /\ frame_err' = "none"
        /\ UNCHANGED <<view_wh, attrs, frame, gl_before>>

\* a drawing step: GcodeModel.display(mode_2d), which multiplies the
\* current matrix by glScale(1.0, 1.0, 0.0) in 2D mode
drawing ==
    \E mode_2d \in BOOLEAN :
        /\ frame = "open"
        /\ FrameCall("display")
        /\ gl' = IF mode_2d
                 THEN glMultiply(gl, <<"glScale", F(1), F(1), 0>>)
                 ELSE gl
        /\ frame_err' = "none"
        /\ UNCHANGED <<view_wh, attrs, frame, gl_before>>

\* a drawing step that raises: GcodeModel.display(mode_2d) with
\* num_layers_to_draw above max_layers raises IndexError after the glScale
\* of the 2D mode; the exception leaves the frame
drawing_raises ==
    \E mode_2d \in BOOLEAN :
        /\ frame = "open"
        /\ FrameCall("display")
        /\ gl' = IF mode_2d
                 THEN glMultiply(gl, <<"glScale", F(1), F(1), 0>>)
                 ELSE gl
        /\ frame_err' = "IndexError"
        /\ frame' = "aborted"
        /\ UNCHANGED <<view_wh, attrs, gl_before>>

NextFrame ==
    set_ortho \/ begin \/ end \/ display_transform \/ ui_transform
        \/ drawing \/ drawing_raises

SpecFrame == InitFrame /\ [][NextFrame]_vars

(***************************************************************************)
(* The camera in use: the caller mixes the gestures and the state calls of *)
(* the view with the selection of the projection and with frames.          *)
(***************************************************************************)
MaxCameraSteps == 1
MaxCameraCalls == 3

InitCamera ==
    /\ \E k \in {"View2D", "View3D"} : Constructed(k)
    /\ fuel = MaxCameraSteps
    /\ run = [open |-> FALSE, n |-> 0]
    /\ view_wh = None
    /\ gl = [mode |-> GL_MODELVIEW,
             projection |-> <<PriorMatrix>>,
             modelview |-> <<PriorMatrix>>]
    /\ frame = "none"
    /\ gl_before = [mode |-> GL_MODELVIEW,
                    projection |-> <<PriorMatrix>>,
                    modelview |-> <<PriorMatrix>>]
    /\ frame_err = "none"
    /\ frame_op = "__init__"
    /\ frame_calls = MaxCameraCalls
    /\ NoGcodeModel /\ NoColorCall /\ NoMesh /\ NoVectorCall

NextCamera == NextView \/ NextFrame

SpecCamera == InitCamera /\ [][NextCamera]_vars

(***************************************************************************)
(* Properties of the view.                                                 *)
(***************************************************************************)
Last(s) == s[Len(s)]

\* C1: a reset_state that follows a push_state (the constructor's included)
\* and gestures only sets every tracked attribute back to the value it had at
\* that push_state.
C1_ResetRestoresLastPush ==
    [][(lastOp' = "reset_state" /\ clean)
        => (~raised' /\ attrs' = Last(snaps))]_vars

\* two gestures after construction, then reset_state
C1_Witness ==
    /\ lastOp = "reset_state"
    /\ fuel = MaxSteps - 3
    /\ undone = 2
    /\ ~raised
    /\ attrs = ctor_attrs(kind)

\* C2: reset_state leaves the stack as it was, depth and top snapshot
\* included, so every further reset_state restores the same snapshot.
C2_ResetKeepsStack ==
    [][(lastOp' = "reset_state")
        => (/\ Len(stack') = Len(stack)
            /\ stack' = stack
            /\ snaps' = snaps
            /\ raised' = (stack = <<>>))]_vars

\* a second reset_state in a row, gestures before each
C2_Witness ==
    /\ lastOp = "reset_state"
    /\ resets >= 2
    /\ undone >= 1
    /\ ~raised

\* C3: pop_state restores the most recent snapshot not yet popped, every
\* attribute getting its own saved value, and removes that snapshot.
C3_PopIsLifo ==
    [][(lastOp' = "pop_state" /\ snaps # <<>>)
        => (/\ ~raised'
            /\ attrs' = Last(snaps)
            /\ Len(stack') = Len(stack) - Len(save_vars(kind)))]_vars

\* two pop_state calls in a row that restored different snapshots, the second
\* one the constructor's
C3_Witness ==
    /\ lastOp = "pop_state"
    /\ Len(popped) = 2
    /\ popped[1] # popped[2]
    /\ popped[2] = ctor_attrs(kind)
    /\ attrs = popped[2]
    /\ stack = <<>>

\* C4: the zoom factor stays within [ZOOM_MIN, ZOOM_MAX].
C4_ZoomClamped ==
    /\ ZOOM_MIN <= attrs.zoom_factor
    /\ attrs.zoom_factor <= ZOOM_MAX

\* a zoom-in call made when the zoom factor is at its maximum already
C4_Witness ==
    /\ lastOp = "zoom"
    /\ ~run.open
    /\ run.n = MaxBurst
    /\ gest = MaxBurst + 1
    /\ attrs.zoom_factor = ZOOM_MAX

(***************************************************************************)
(* Properties of the GcodeModel.                                           *)
(***************************************************************************)
\* the movements of all the layers, in order
RECURSIVE Flatten(_)
Flatten(data) ==
    IF data = <<>> THEN <<>> ELSE Head(data) \o Flatten(Tail(data))

\* the number of movements in the first i layers
MovesUpTo(data, i) == Len(Flatten(SubSeq(data, 1, i)))

\* the name of the color of a movement, by the rules of the specification
ColorName(m) ==
    CASE ~m.extruder_on -> "gray"
      [] m.extruder_on /\ m.is_loop -> "yellow"
      [] m.extruder_on /\ ~m.is_loop /\ m.is_perimeter
            /\ m.is_perimeter_outer -> "cyan"
      [] m.extruder_on /\ ~m.is_loop /\ m.is_perimeter
            /\ ~m.is_perimeter_outer -> "green"
      [] OTHER -> "red"

Constructed_Gcode == gpc \in {"ready", "failed"}

\* C5: the constructor succeeds on every model_data, with 2 vertices and 3
\* arrow vertices for each movement: len(arrows) = (len(vertices) // 2) * 3.
C5_ArrowRatio ==
    Constructed_Gcode =>
        /\ gpc = "ready"
        /\ Len(vertices) = 2 * Len(Flatten(model_data))
        /\ Len(arrows) = 3 * Len(Flatten(model_data))
        /\ Len(arrows) = (Len(vertices) \div 2) * 3

\* a model of several layers, one of them empty, and two movements or more
C5_Witness ==
    /\ gpc = "ready"
    /\ Len(model_data) >= 2
    /\ \E i \in 1..Len(model_data) : model_data[i] = <<>>
    /\ Len(Flatten(model_data)) >= 2
    /\ Len(arrows) >= 6

\* C6: layer_stops starts at 0, never decreases, ends at len(vertices), has
\* one entry more than there are layers, and its entry i is twice the number
\* of movements of the layers 1..i.
C6_LayerStops ==
    gpc = "ready" =>
        /\ Len(layer_stops) = Len(model_data) + 1
        /\ max_layers = Len(model_data)
        /\ layer_stops[1] = 0
        /\ layer_stops[Len(layer_stops)] = Len(vertices)
        /\ \A i \in 1..(Len(layer_stops) - 1) :
                layer_stops[i] <= layer_stops[i + 1]
        /\ \A i \in 0..Len(model_data) :
                layer_stops[i + 1] = 2 * MovesUpTo(model_data, i)

\* a movement, an empty layer, a movement
C6_Witness ==
    /\ gpc = "ready"
    /\ layer_stops = <<0, 2, 2, 4>>

\* C7: movement_color returns gray when the extruder is off, else yellow for
\* a loop, else cyan for an outer perimeter, else green for a perimeter, else
\* red.
C7_ColorRules ==
    ccolor # <<>> =>
        /\ ~cmove.extruder_on => ccolor = color_map.gray
        /\ (cmove.extruder_on /\ cmove.is_loop) => ccolor = color_map.yellow
        /\ (cmove.extruder_on /\ ~cmove.is_loop /\ cmove.is_perimeter
                /\ cmove.is_perimeter_outer) => ccolor = color_map.cyan
        /\ (cmove.extruder_on /\ ~cmove.is_loop /\ cmove.is_perimeter
                /\ ~cmove.is_perimeter_outer) => ccolor = color_map.green
        /\ (cmove.extruder_on /\ ~cmove.is_loop /\ ~cmove.is_perimeter)
                => ccolor = color_map.red

\* gray for a movement with the extruder off and every other flag set
C7_Witness ==
    /\ ccolor = color_map.gray
    /\ cmove.is_loop
    /\ cmove.is_perimeter
    /\ cmove.is_perimeter_outer

\* C8: colors holds one color for each movement, in the order of the
\* movements; two layers of one infill movement each give 4 vertices, 2 red
\* colors, 6 arrow vertices and layer_stops = [0, 2, 4].
C8_ColorPerMovement ==
    gpc = "ready" =>
        /\ 2 * Len(colors) = Len(vertices)
        /\ Len(colors) = Len(Flatten(model_data))
        /\ \A k \in 1..Len(colors) :
                colors[k] = color_map[ColorName(Flatten(model_data)[k])]
        /\ (/\ Len(model_data) = 2
            /\ \A i \in 1..2 :
                    /\ Len(model_data[i]) = 1
                    /\ ColorName(model_data[i][1]) = "red")
            => (/\ Len(vertices) = 4
                /\ colors = <<color_map.red, color_map.red>>
                /\ Len(arrows) = 6
                /\ layer_stops = <<0, 2, 4>>)

\* the two layers of one infill movement each
C8_Witness ==
    /\ gpc = "ready"
    /\ Len(model_data) = 2
    /\ \A i \in 1..2 :
            /\ Len(model_data[i]) = 1
            /\ ColorName(model_data[i][1]) = "red"
    /\ colors = <<color_map.red, color_map.red>>
    /\ layer_stops = <<0, 2, 4>>

\* a glDrawArrays call that stays inside a buffer of n elements
InBuffer(call, n) ==
    /\ call # <<>>
    /\ 0 <= call[1]
    /\ 0 <= call[2]
    /\ call[1] + call[2] <= n

Displayed ==
    /\ gpc = "ready"
    /\ glastOp = "display"
    /\ "vertex_buffer" \in DOMAIN vbo
    /\ arrows_enabled => "arrow_buffer" \in DOMAIN vbo

\* C9: whatever value num_layers_to_draw was given, display of a model with
\* layers raises no error and draws ranges that lie inside the buffers.
C9_SelectorClamped ==
    (Displayed /\ max_layers >= 1) =>
        /\ gerr = "none"
        /\ InBuffer(drawn.movements, Len(vertices))
        /\ arrows_enabled => InBuffer(drawn.arrows, Len(arrows))

\* C10: for num_layers_to_draw = n in 1..max_layers, display draws the
\* vertices of layer n in 2D mode and those of the layers 1..n in 3D mode,
\* and the range drawn ends inside the vertex buffer.
C10_VertexRange ==
    (Displayed /\ num_layers_to_draw \in 1..max_layers) =>
        LET n == num_layers_to_draw
        IN  /\ drawn.movements =
                    IF drawn.mode_2d
                    THEN <<2 * MovesUpTo(model_data, n - 1),
                           2 * Len(model_data[n])>>
                    ELSE <<0, 2 * MovesUpTo(model_data, n)>>
            /\ drawn.movements =
                    IF drawn.mode_2d
                    THEN <<layer_stops[n], layer_stops[n + 1] - layer_stops[n]>>
                    ELSE <<0, layer_stops[n + 1]>>
            /\ InBuffer(drawn.movements, Len(vertices))

\* the second layer alone, drawn in 2D mode
C10_Witness ==
    /\ Displayed
    /\ drawn.mode_2d
    /\ num_layers_to_draw = 2
    /\ drawn.movements = <<2, 2>>
    /\ Len(vertices) = 4

\* C11: for num_layers_to_draw in 1..max_layers, in 2D and in 3D mode, the
\* arrow range drawn is the vertex range drawn mapped by the 2:3 ratio:
\* arrow start = vertex start / 2 * 3, arrow count = vertex count / 2 * 3.
C11_ArrowRangeFollowsVertices ==
    (Displayed /\ arrows_enabled /\ num_layers_to_draw \in 1..max_layers) =>
        /\ gerr = "none"
        /\ drawn.arrows = <<(drawn.movements[1] \div 2) * 3,
                            (drawn.movements[2] \div 2) * 3>>

(***************************************************************************)
(* Properties of the StlModel and of the bounding box.                     *)
(***************************************************************************)
SetMin(S) == CHOOSE m \in S : \A e \in S : m <= e
SetMax(S) == CHOOSE m \in S : \A e \in S : m >= e

\* the values the vertices of a buffer take on axis j
AxisValues(vs, j) == {vs[i][j] : i \in 1..Len(vs)}

\* the box of a non-empty buffer, from the definition
BoxOf(vs) ==
    [upper_corner |-> [j \in 1..3 |-> SetMax(AxisValues(vs, j))],
     lower_corner |-> [j \in 1..3 |-> SetMin(AxisValues(vs, j))]]

\* the last call made on the mesh
LastCall == mesh_log[Len(mesh_log)]

MeshReturned(op) ==
    /\ mesh_log # <<>>
    /\ LastCall.op = op
    /\ mesh_err = "none"

\* C12: the cached box is absent or is the box of the current vertices, and
\* a read of bounding_box returns the box of the current vertices.
C12_NoStaleBox ==
    /\ cached_box # None => cached_box = BoxOf(mesh_vertices)
    /\ MeshReturned("bounding_box") => mesh_returned = BoxOf(mesh_vertices)

\* a read, a call that changes the vertices, and a read that returns
\* another box than the first
C12_Witness ==
    /\ Len(mesh_log) = 3
    /\ mesh_log[1].op = "bounding_box"
    /\ mesh_log[2].op \in {"scale", "translate", "rotate"}
    /\ mesh_log[2].cached_box # None
    /\ MeshReturned("bounding_box")
    /\ mesh_returned # mesh_log[2].cached_box

\* C13: a computed box has the per-axis minimum as lower corner and the
\* per-axis maximum as upper corner, so upper >= lower on every axis and
\* width, depth and height are not negative; the vertices in any other order
\* give the same box.
C13_BoxIsMinMax ==
    (MeshReturned("bounding_box") /\ LastCall.cached_box = None) =>
        /\ \A j \in 1..3 :
            /\ mesh_returned.lower_corner[j] =
                    SetMin(AxisValues(mesh_vertices, j))
            /\ mesh_returned.upper_corner[j] =
                    SetMax(AxisValues(mesh_vertices, j))
            /\ mesh_returned.upper_corner[j] >= mesh_returned.lower_corner[j]
        /\ width(mesh_returned) >= 0
        /\ depth(mesh_returned) >= 0
        /\ height(mesh_returned) >= 0
        /\ \A p \in Permutations(1..Len(mesh_vertices)) :
                calculate_bounding_box(
                    [i \in 1..Len(mesh_vertices) |-> mesh_vertices[p[i]]]).box
                    = mesh_returned

\* the box of two vertices neither of which is a corner of it
C13_Witness ==
    /\ MeshReturned("bounding_box")
    /\ LastCall.cached_box = None
    /\ mesh_vertices = << <<F(1), F(2), F(3)>>, <<F(-2), F(4), F(0)>> >>
    /\ mesh_returned = BoundingBox(<<F(1), F(4), F(3)>>, <<F(-2), F(2), F(0)>>)
    /\ width(mesh_returned) = F(3)

\* C14: scale(f) followed by scale(1.0), on a mesh whose scaling_factor is
\* 1.0, gives back the vertices as they were and scaling_factor = 1.0, for
\* any factor f.
C14_ScaleBackRestores ==
    (/\ Len(mesh_log) >= 2
     /\ LastCall.op = "scale"
     /\ LastCall.args = <<F(1)>>
     /\ mesh_log[Len(mesh_log) - 1].op = "scale"
     /\ mesh_log[Len(mesh_log) - 1].scaling_factor = F(1)) =>
        /\ mesh_err = "none"
        /\ mesh_vertices = mesh_log[Len(mesh_log) - 1].vertices
        /\ scaling_factor = F(1)

\* C15: after scale calls only, every coordinate is its value at
\* construction times scaling_factor and scaling_factor is the factor of the
\* last call; scale(factor) with factor = scaling_factor changes neither the
\* vertices, nor scaling_factor, nor the cached box.
C15_ScaleComposes ==
    (/\ mesh_log # <<>>
     /\ \A k \in 1..Len(mesh_log) : mesh_log[k].op \in {"scale", "bounding_box"}
     /\ LastCall.op = "scale") =>
        /\ \A i \in 1..Len(mesh_vertices) : \A j \in 1..3 :
                mesh_vertices[i][j] =
                    FMul(mesh_log[1].vertices[i][j], scaling_factor)
        /\ scaling_factor = LastCall.args[1]
        /\ LastCall.args[1] = LastCall.scaling_factor =>
                /\ mesh_vertices = LastCall.vertices
                /\ cached_box = LastCall.cached_box

(***************************************************************************)
(* Properties of vector.py.                                                *)
(***************************************************************************)
\* the last call made, and the k-th call before it
LastVectorCall == vec_log[Len(vec_log)]
VectorCallBefore(k) == vec_log[Len(vec_log) - k]

UnitAxis(args) == args[2] * args[2] + args[3] * args[3] + args[4] * args[4] = 1

\* C16: translate adds (x, y, z) to every vertex, returns a new buffer and
\* leaves its input as it was; translating by (x, y, z) and then by
\* (-x, -y, -z) gives the original buffer back.
C16_Translate ==
    (vec_log # <<>> /\ LastVectorCall.op = "translate") =>
        LET given == LastVectorCall.vertices
            o == LastVectorCall.args
        IN  /\ Len(vec_buf) = Len(given)
            /\ \A i \in 1..Len(given) : \A j \in 1..3 :
                    vec_buf[i][j] = given[i][j] + o[j]
            /\ vec_arg = given
            /\ (/\ Len(vec_log) >= 2
                /\ VectorCallBefore(1).op = "translate"
                /\ \A j \in 1..3 : VectorCallBefore(1).args[j] = -o[j])
                => vec_buf = VectorCallBefore(1).vertices

\* two vertices translated and translated back
C16_Witness ==
    /\ Len(vec_log) = 2
    /\ Len(vec_buf) = 2
    /\ vec_log[1].op = "translate"
    /\ vec_log[2].op = "translate"
    /\ vec_log[1].args = <<F(1), F(-2), F(4)>>
    /\ vec_log[2].args = <<F(-1), F(2), F(-4)>>
    /\ vec_log[2].vertices # vec_buf
    /\ vec_log[1].vertices = vec_buf

\* C17: about an axis of unit length, rotate by 0 degrees and rotate by 360
\* degrees return the buffer given, and so do four rotations by 90 degrees
\* about the same axis made one after the other.
C17_FullTurn ==
    (/\ vec_log # <<>>
     /\ LastVectorCall.op = "rotate"
     /\ UnitAxis(LastVectorCall.args)) =>
        /\ LastVectorCall.args[1] \in {0, 360}
                => vec_buf = LastVectorCall.vertices
        /\ (/\ Len(vec_log) >= 4
            /\ \A k \in 0..3 :
                    /\ VectorCallBefore(k).op = "rotate"
                    /\ VectorCallBefore(k).args =
                            <<90>> \o SubSeq(LastVectorCall.args, 2, 4))
                => vec_buf = VectorCallBefore(3).vertices

\* four rotations by 90 degrees about the z axis, each of which moved the
\* vertices
C17_Witness ==
    /\ Len(vec_log) = 4
    /\ \A k \in 1..4 :
            /\ vec_log[k].op = "rotate"
            /\ vec_log[k].args = <<90, 0, 0, 1>>
    /\ vec_log[1].vertices = << <<F(1), F(2), F(3)>>, <<F(-2), F(4), F(0)>> >>
    /\ vec_log[2].vertices # vec_log[1].vertices
    /\ vec_log[3].vertices # vec_log[1].vertices
    /\ vec_log[4].vertices # vec_log[1].vertices
    /\ vec_buf = vec_log[1].vertices

\* C18: rotate about the axis (0, 0, 0) returns the vertices unchanged, for
\* every angle.
C18_ZeroAxisIsIdentity ==
    (/\ vec_log # <<>>
     /\ LastVectorCall.op = "rotate"
     /\ SubSeq(LastVectorCall.args, 2, 4) = <<0, 0, 0>>) =>
        vec_buf = LastVectorCall.vertices

(***************************************************************************)
(* Properties of the frames.                                               *)
(***************************************************************************)
\* the frame has just been left: by end(), or by a drawing step that raised
FrameLeft ==
    \/ frame = "closed" /\ frame_op = "end"
    \/ frame = "aborted" /\ frame_op = "display"

\* C19: when a frame has been left, after any display_transform,
\* ui_transform and drawing steps, a drawing step that raised included, the
\* projection stack and the modelview stack (their depth and their matrices)
\* are what they were right before begin.
C19_FrameRestores ==
    FrameLeft =>
        /\ gl.projection = gl_before.projection
        /\ gl.modelview = gl_before.modelview

(***************************************************************************)
(* Properties of the gestures.                                             *)
(***************************************************************************)
\* C20: zoom(delta_x, delta_y) sets zoom_factor to min(zoom_factor * 1.2,
\* 1000) when delta_y > 0, to max(zoom_factor * 0.83, 0.1) when delta_y < 0
\* and leaves it alone when delta_y = 0, whatever delta_x and the size of
\* delta_y; no other attribute and nothing of the stack changes.
C20_ZoomBySign ==
    [][lastOp' = "zoom" =>
        /\ ~raised'
        /\ lastArgs'[2] > 0 =>
                attrs'.zoom_factor = Min(MulLit(attrs.zoom_factor, 12, 10),
                                         F(1000))
        /\ lastArgs'[2] < 0 =>
                attrs'.zoom_factor = Max(MulLit(attrs.zoom_factor, 83, 100),
                                         Scale \div 10)
        /\ lastArgs'[2] = 0 => attrs'.zoom_factor = attrs.zoom_factor
        /\ DOMAIN attrs' = DOMAIN attrs
        /\ \A n \in DOMAIN attrs \ {"zoom_factor"} : attrs'[n] = attrs[n]
        /\ stack' = stack]_vars

\* a zoom by (2, 3) that met the upper bound, at the end of a run of zooms
C20_Witness ==
    /\ lastOp = "zoom"
    /\ lastArgs = <<2, 3>>
    /\ attrs.zoom_factor = F(1000)
    /\ gest >= 2

\* the attributes of a view other than those named
SameBut(names) ==
    /\ DOMAIN attrs' = DOMAIN attrs
    /\ \A n \in DOMAIN attrs \ names : attrs'[n] = attrs[n]

\* C21: rotate(delta_x, delta_y) adds delta_x to azimuth in both views and
\* subtracts delta_y from elevation in View3D only; x, y, z, zoom_factor and
\* the stack are unchanged.
C21_RotateAngles ==
    [][lastOp' = "rotate" =>
        /\ ~raised'
        /\ attrs'.azimuth = attrs.azimuth + F(lastArgs'[1])
        /\ kind = "View2D" => SameBut({"azimuth"})
        /\ kind = "View3D" =>
                /\ attrs'.elevation = attrs.elevation - F(lastArgs'[2])
                /\ SameBut({"azimuth", "elevation"})
        /\ stack' = stack]_vars

\* a View3D rotated by (2, 3) right after construction
C21_Witness ==
    /\ lastOp = "rotate"
    /\ kind = "View3D"
    /\ lastArgs = <<2, 3>>
    /\ attrs.azimuth = F(2)
    /\ attrs.elevation = F(-23)

\* C22: View2D.pan adds 4 * delta_x to x and subtracts 4 * delta_y from y,
\* whatever the zoom; View3D.pan adds delta_x / zoom_factor to x and
\* subtracts delta_y / zoom_factor from z, and zoom_factor is never 0 when
\* it is called; nothing else changes.
C22_PanSteps ==
    [][lastOp' = "pan" =>
        /\ ~raised'
        /\ kind = "View2D" =>
                /\ attrs'.x = attrs.x + 4 * F(lastArgs'[1])
                /\ attrs'.y = attrs.y - 4 * F(lastArgs'[2])
                /\ SameBut({"x", "y"})
        /\ kind = "View3D" =>
                /\ attrs.zoom_factor > 0
                /\ attrs'.x = attrs.x
                        + FDiv(F(lastArgs'[1]), attrs.zoom_factor)
                /\ attrs'.z = attrs.z
                        - FDiv(F(lastArgs'[2]), attrs.zoom_factor)
                /\ SameBut({"x", "z"})
        /\ stack' = stack]_vars

\* a View3D zoomed out to the lower bound and panned by (2, 3)
C22_Witness ==
    /\ lastOp = "pan"
    /\ kind = "View3D"
    /\ lastArgs = <<2, 3>>
    /\ attrs.zoom_factor = Scale \div 10
    /\ attrs.x = F(20)
    /\ attrs.z = F(-20) - F(30)

(***************************************************************************)
(* More properties of the StlModel.                                        *)
(***************************************************************************)
\* C23: scale, translate and rotate leave the normals as they were given
\* to the constructor, and translate and rotate leave scaling_factor as it
\* was.
C23_NormalsKept ==
    mesh_log # <<>> =>
        /\ Len(mesh_normals) = Len(mesh_log[1].vertices)
        /\ \A i \in 1..Len(mesh_normals) : mesh_normals[i] = <<0, 0, F(1)>>
        /\ LastCall.op \in {"translate", "rotate"} =>
                scaling_factor = LastCall.scaling_factor

\* a mesh scaled by 2 and turned by 180 degrees about the x axis
C23_Witness ==
    /\ Len(mesh_log) = 2
    /\ mesh_log[1].op = "scale"
    /\ LastCall.op = "rotate"
    /\ LastCall.args = <<180, 1, 0, 0>>
    /\ mesh_err = "none"
    /\ scaling_factor = F(2)
    /\ mesh_vertices # LastCall.vertices
    /\ mesh_normals = << <<0, 0, F(1)>> >>

(***************************************************************************)
(* More properties of vector.py.                                           *)
(***************************************************************************)
\* the matrix m times the column vector v
MatVec(m, v) ==
    [j \in 1..3 |-> m[j][1] * v[1] + m[j][2] * v[2] + m[j][3] * v[3]]

\* C24: about an axis of unit length, rotate returns for every vertex v the
\* vector R * v, R the Rodrigues matrix of the axis and the angle (a
\* right-handed rotation by +angle), and leaves its input as it was.
C24_RodriguesTimesVertex ==
    (/\ vec_log # <<>>
     /\ LastVectorCall.op = "rotate"
     /\ UnitAxis(LastVectorCall.args)) =>
        LET given == LastVectorCall.vertices
            t == LastVectorCall.args
        IN  /\ Len(vec_buf) = Len(given)
            /\ \A i \in 1..Len(given) :
                    vec_buf[i] =
                        MatVec(rotation_matrix(t[1], t[2], t[3], t[4]),
                               given[i])
            /\ vec_arg = given

(***************************************************************************)
(* More properties of the views.                                           *)
(***************************************************************************)
\* a step that is a call of display_transform
DisplayTransformStep ==
    /\ frame_calls' = frame_calls - 1
    /\ frame_op' = "display_transform"

\* a step that is one of push_state, pop_state, reset_state, zoom, pan, rotate
ViewCallStep == fuel' = fuel - 1

\* C25: a call of View3D.display_transform multiplies the current matrix by
\* one scale, of zoom_factor when ortho is off and of zoom_factor * 4.5 when
\* it is on, and changes no attribute of the view (nor the snapshot stack),
\* so that a second call applies the same scale.
C25_ScaleByZoom ==
    [][(kind = "View3D" /\ DisplayTransformStep) =>
        LET before == Last(gl[gl.mode])
            after == Last(gl'[gl.mode])
            f == IF attrs.ortho THEN RoundDiv(attrs.zoom_factor * 45, 10)
                 ELSE attrs.zoom_factor
        IN  /\ frame_err' = "none"
            /\ Len(after) = Len(before) + 6
            /\ SubSeq(after, 1, Len(before)) = before
            /\ after[Len(before) + 3] = <<"glScale", f, f, f>>
            /\ \A i \in (Len(before) + 1)..Len(after) :
                    i # Len(before) + 3 => after[i][1] # "glScale"
            /\ attrs' = attrs
            /\ stack' = stack]_vars

\* reached: with ortho on and the view zoomed in once, display_transform was
\* called twice in a row and scaled by 1.2 * 4.5 both times
C25_Witness ==
    /\ kind = "View3D"
    /\ frame_op = "display_transform"
    /\ attrs.ortho
    /\ attrs.zoom_factor = (12 * Scale) \div 10
    /\ Len(Last(gl.modelview)) = Len(PriorMatrix) + 12
    /\ \A i \in {Len(PriorMatrix) + 3, Len(PriorMatrix) + 9} :
            Last(gl.modelview)[i] =
                <<"glScale", (54 * Scale) \div 10, (54 * Scale) \div 10,
                  (54 * Scale) \div 10>>

\* C27: the snapshot stack always holds a whole number of snapshots (5
\* values each in a View2D, 6 in a View3D), and pop_state or reset_state
\* called on an empty stack raises and changes neither an attribute nor the
\* stack.
C27_WholeSnapshots ==
    /\ [](Len(stack) % (IF kind = "View2D" THEN 5 ELSE 6) = 0)
    /\ [][(ViewCallStep /\ lastOp' \in {"pop_state", "reset_state"}
             /\ stack = <<>>) =>
            /\ raised'
            /\ attrs' = attrs
            /\ stack' = stack]_vars

\* reached: after an unmatched pop_state and a gesture, reset_state raised
C27_Witness ==
    /\ lastOp = "reset_state"
    /\ raised
    /\ stack = <<>>
    /\ attrs # ctor_attrs(kind)

\* C30: push_state, pop_state, reset_state, zoom, pan and rotate change
\* neither ortho nor supports_ortho.
C30_OrthoNotSaved ==
    [][ViewCallStep =>
        /\ attrs'.supports_ortho = attrs.supports_ortho
        /\ kind = "View3D" => attrs'.ortho = attrs.ortho]_vars

\* reached: the orthographic projection selected after construction is
\* still selected after a reset_state that restored the camera
C30_Witness ==
    /\ kind = "View3D"
    /\ attrs.ortho
    /\ lastOp = "reset_state"
    /\ ~raised
    /\ [attrs EXCEPT !.ortho = FALSE] = ctor_attrs(kind)

(***************************************************************************)
(* More properties of the GcodeModel.                                      *)
(***************************************************************************)
\* the arrow template turned by the angle about the z axis (the Rodrigues
\* matrix times each of its points), then moved to the point p
ArrowAt(angle, p) ==
    [j \in 1..3 |->
        LET r == MatVec(rotation_matrix(angle, 0, 0, 1), arrow[j])
        IN  <<r[1] + p[1], r[2] + p[2], r[3] + p[3]>>]

\* C26: the buffers are aligned movement by movement: the k-th movement of
\* all the layers has its point_a and point_b at vertices 2k and 2k+1 and
\* its arrow, the template rotated by its angle about the z axis and
\* translated by its point_b, at arrows 3k..3k+2, the first of them being
\* point_b.
C26_BuffersAligned ==
    gpc = "ready" =>
        LET ms == Flatten(model_data)
        IN  /\ Len(vertices) = 2 * Len(ms)
            /\ Len(arrows) = 3 * Len(ms)
            /\ \A k \in 1..Len(ms) :
                    /\ vertices[2 * k - 1] = ms[k].point_a
                    /\ vertices[2 * k] = ms[k].point_b
                    /\ arrows[3 * k - 2] = ms[k].point_b
                    /\ \A j \in 1..3 :
                            arrows[3 * (k - 1) + j] =
                                ArrowAt(ms[k].angle, ms[k].point_b)[j]

\* C28: when display has run after init() with arrows_enabled true, the
\* arrow vertex buffer and the arrow color buffer exist, whatever the order
\* of the init() calls and the changes of arrows_enabled before it.
C28_ArrowBuffersExist ==
    (/\ gpc = "ready"
     /\ glastOp = "display"
     /\ initialized
     /\ arrows_enabled) =>
        /\ "arrow_buffer" \in DOMAIN vbo
        /\ "arrow_color_buffer" \in DOMAIN vbo
        /\ gerr # "AttributeError"

(***************************************************************************)
(* More properties of the frames.                                          *)
(***************************************************************************)
\* begin has been called and end has not been called since
InBracket == frame \in {"open", "aborted"}

\* C29: a View2D has w and h set exactly from a begin() to the next end():
\* they are None after construction and after every end(), and the
\* arguments of the last begin() in between; display_transform succeeds
\* inside that bracket and raises outside of it, changing no camera
\* parameter.
C29_SizeWhileFrame ==
    /\ [](kind = "View2D" => (view_wh # None <=> InBracket))
    /\ [][(kind = "View2D" /\ frame_calls' = frame_calls - 1) =>
            /\ frame_op' = "begin" =>
                    Last(gl'.projection) =
                        << <<"glOrtho", 0, F(view_wh'[1]), 0, F(view_wh'[2]),
                             NEAR, FAR>> >>
            /\ frame_op' = "end" => view_wh' = None
            /\ frame_op' \notin {"begin", "end"} => view_wh' = view_wh
            /\ frame_op' = "display_transform" =>
                    /\ frame_err' = "none" <=> InBracket
                    /\ ~InBracket => frame_err' = "TypeError"
                    /\ attrs' = attrs
                    /\ stack' = stack]_vars

\* reached: a frame with a display_transform in it was closed by end(), and
\* the display_transform called after it raised, right after it had loaded
\* the identity as the projection matrix
C29_Witness ==
    /\ kind = "View2D"
    /\ frame = "closed"
    /\ frame_calls = MaxFrameCalls - 4
    /\ frame_op = "display_transform"
    /\ frame_err = "TypeError"
    /\ view_wh = None
    /\ Last(gl.projection) = <<>>

====
